---- MODULE Spec2Model ----
(***************************************************************************)
(* A model of the three-letter animal game (src/src/main.rs).              *)
(*                                                                         *)
(* A name or a word is a tuple of one-character strings, a line of input   *)
(* is a sequence of one-character strings.  The clock is an input: every   *)
(* call of random_usize reads it once and gets either an error or a count  *)
(* of nanoseconds.  A u128 count is written [hi, lo], the value            *)
(* hi * 2^w + lo for the width w of usize, so that the cast to usize keeps *)
(* lo.  The iteration order of a HashSet is unspecified: when a set is     *)
(* collected into a Vec the order is an input too.  println! and print!    *)
(* are taken to succeed; the failures the code handles with `?` (flush,    *)
(* read_line) are modelled.  `out` is the part of standard output written  *)
(* by the current iteration of the loop of main; `ret` is the result of   *)
(* the iteration's call of animal_or_not and `path` the path the call      *)
(* took through it.  `io` is the input/output failure that has occurred.   *)
(* `calls` and `known_calls` count the calls of animal_or_not and those    *)
(* of them that took the branch of a real animal name, and `rnd` holds a   *)
(* call of random_usize taken alone; the three are kept only by the        *)
(* specifications that bound them and stay as they start in the others.    *)
(***************************************************************************)
EXTENDS Integers, Sequences, FiniteSets, TLC

VARIABLES done_set, pc, ret, path, out, input, io, calls, known_calls, rnd

\* the counters and the observed call of random_usize
aux == <<calls, known_calls, rnd>>

vars == <<done_set, pc, ret, path, out, input, io, calls, known_calls, rnd>>

(* ---------------------------- bounds ----------------------------------- *)

\* the low words a successful clock reading takes are 0..MaxNanos
MaxNanos == 1
\* a HashSet is collected in its base order rotated by 0..MaxRot places
MaxRot == 1
\* the low words of the clock readings of a single call taken alone
MaxWideNanos == 11
\* random_usize taken alone: max is in 0..MaxRandMax, the high word of the
\* clock in 0..MaxRandHi, its low word in 0..MaxRandLo
MaxRandMax == 6
MaxRandHi == 1
MaxRandLo == 8
\* the calls of animal_or_not a counted session makes
MaxCalls == 18

(* ---------------------------- data ------------------------------------- *)

THREE_LETTER_ANIMAL_NAMES ==
    << <<"p","u","p">>, <<"d","o","g">>, <<"c","a","t">>, <<"r","a","t">>,
       <<"f","o","x">>, <<"h","e","n">>, <<"b","u","g">>, <<"a","n","t">>,
       <<"f","l","y">>, <<"p","i","g">>, <<"b","a","t">>, <<"c","o","w">>,
       <<"h","o","g">>, <<"a","p","e">>, <<"o","w","l">>, <<"b","e","e">> >>

Range(s) == {s[i] : i \in 1..Len(s)}

animals_set == Range(THREE_LETTER_ANIMAL_NAMES)

extra_first == <<"t", "l", "b", "p", "s">>

vowels == {"a", "e", "i", "o", "u"}

Alphabet ==
    <<"a","b","c","d","e","f","g","h","i","j","k","l","m",
      "n","o","p","q","r","s","t","u","v","w","x","y","z">>

(* ---------------------------- the clock -------------------------------- *)

ClockErr == [ok |-> FALSE, hi |-> 0, lo |-> 0]

ClockOk(h, l) == [ok |-> TRUE, hi |-> h, lo |-> l]

\* the readings of SystemTime::now().duration_since(UNIX_EPOCH) the model draws
ClockReadings ==
    {ClockErr} \cup {ClockOk(0, l) : l \in 0..MaxNanos} \cup {ClockOk(1, 0)}

\* the readings drawn when a single call is taken alone
WideClockReadings ==
    {ClockErr} \cup {ClockOk(0, l) : l \in 0..MaxWideNanos} \cup {ClockOk(1, 0)}

\* nanos as usize: the high bits are dropped
as_usize(nanos) == nanos.lo

\* mutant: the modulus is one too large
random_usize_inclusive(max, clock) ==
    IF max = 0 THEN 0
    ELSE IF ~clock.ok THEN 0
    ELSE as_usize(clock) % (max + 1)

random_usize(max, clock) ==
    IF max = 0 THEN 0
    ELSE IF ~clock.ok THEN 0
    ELSE as_usize(clock) % max

(* ---------------------------- collections ------------------------------ *)

\* the elements of a set of letters in alphabetical order
BaseOrder(S) == SelectSeq(Alphabet, LAMBDA c : c \in S)

Rotate(s, r) == [i \in 1..Len(s) |-> s[((i - 1 + r) % Len(s)) + 1]]

\* HashSet::into_iter().collect::<Vec<_>>(): the orders the model draws
IntoVec(S) == {Rotate(BaseOrder(S), r) : r \in 0..MaxRot}

\* mutant: the filter on the discovered set is missing
available_animals_unfiltered(set) == THREE_LETTER_ANIMAL_NAMES

\* mutant: the filter keeps the discovered names
available_animals_inverted(set) ==
    SelectSeq(THREE_LETTER_ANIMAL_NAMES, LAMBDA animal : animal \in set)

\* the catalog names that pass the filter, in catalog order
available_animals(set) ==
    SelectSeq(THREE_LETTER_ANIMAL_NAMES, LAMBDA animal : animal \notin set)

first_letters ==
    {THREE_LETTER_ANIMAL_NAMES[i][1] : i \in 1..Len(THREE_LETTER_ANIMAL_NAMES)}
        \cup Range(extra_first)

\* mutant: the second letters are not filtered to the vowels
second_letters_unfiltered ==
    {THREE_LETTER_ANIMAL_NAMES[i][2] : i \in 1..Len(THREE_LETTER_ANIMAL_NAMES)}

second_letters ==
    LET all == {THREE_LETTER_ANIMAL_NAMES[i][2] :
                    i \in 1..Len(THREE_LETTER_ANIMAL_NAMES)}
        filtered == all \cap vowels
    IN  IF filtered = {} THEN vowels ELSE filtered

third_letters ==
    {THREE_LETTER_ANIMAL_NAMES[i][3] : i \in 1..Len(THREE_LETTER_ANIMAL_NAMES)}

\* format!("{}{}{}", a, b, c)
format(a, b, c) == <<a, b, c>>

\* THREE_LETTER_ANIMAL_NAMES.contains(&word)
is_animal_name(word) ==
    \E i \in 1..Len(THREE_LETTER_ANIMAL_NAMES) : THREE_LETTER_ANIMAL_NAMES[i] = word

\* mutant: a subset test in the place of the equality
all_found_subset(set) == set \subseteq animals_set

\* &animals_set == animal_done_set
all_found(set) == animals_set = set

\* mutant: the set is replaced by the word, not extended by it
insert_replacing(set, word) == {word}

\* HashSet::insert
insert(set, word) == set \cup {word}

(* ---------------------------- output ----------------------------------- *)

\* an item of standard output
Item(k, s, w) == [kind |-> k, set |-> s, word |-> w]

\* println!("{}", "\n".repeat(50))
Clear == Item("clear", {}, <<>>)

\* println!("So far: {:?}\n", animal_done_set)
SoFar(set) == Item("sofar", set, <<>>)

\* println!("{}\n", word)
Word(w) == Item("word", {}, w)

\* println!("All Done!")
AllDoneMsg == Item("alldone", {}, <<>>)

\* print!("Press Enter to continue (or type 'exit' to quit): ")
Prompt == Item("prompt", {}, <<>>)

\* println!("OK!")
OkMsg == Item("ok", {}, <<>>)

Kinds(o) == [i \in 1..Len(o) |-> o[i].kind]

(* ---------------------------- input ------------------------------------ *)

Whitespace == {" ", "\t", "\n", "\r"}

RECURSIVE trim_start(_)
trim_start(s) ==
    IF s # <<>> /\ Head(s) \in Whitespace THEN trim_start(Tail(s)) ELSE s

RECURSIVE trim_end(_)
trim_end(s) ==
    IF s # <<>> /\ s[Len(s)] \in Whitespace
    THEN trim_end(SubSeq(s, 1, Len(s) - 1))
    ELSE s

\* mutant: only the leading whitespace is removed
trim_start_only(s) == trim_start(s)

\* str::trim
trim(s) == trim_end(trim_start(s))

ExitWord == <<"e", "x", "i", "t">>

\* input.trim() == "exit"
is_exit(line) == trim(line) = ExitWord

\* the lines read_line can deliver in the model
Lines ==
    { <<"e","x","i","t","\n">>,
      <<" "," ","e","x","i","t","\n">>,
      <<"E","x","i","t","\n">>,
      <<"e","x","i","t"," ","n","o","w","\n">>,
      <<"e","x"," ","i","t","\n">>,
      <<"\n">>,
      <<>> }

(* ---------------------------- animal_or_not ---------------------------- *)

\* the head of every call: the screen clear and the "So far" line
Header(set) == <<Clear, SoFar(set)>>

\* mutant: the return after "All Done!" is missing, the call goes on to
\* synthesize a word
AllDoneCall_no_return(set) ==
    [done |-> set,
     out  |-> Header(set) \o <<AllDoneMsg, Word(<<"a", "a", "e">>)>>,
     ret  |-> "Continue",
     path |-> "synth"]

\* the early return: the set equals the catalog
AllDoneCall(set) ==
    [done |-> set, out |-> Header(set) \o <<AllDoneMsg>>,
     ret |-> "AllDone", path |-> "all_done"]

\* the call takes the branch of a real animal name
takes_known_branch(set, c1) ==
    /\ random_usize(4, c1) = 0
    /\ available_animals(set) # <<>>

\* mutant: the selected name is printed and not inserted
KnownCall_no_insert(set, c2) ==
    LET avail == available_animals(set)
        word  == avail[random_usize(Len(avail), c2) + 1]
    IN  [done |-> set,
         out  |-> Header(set) \o <<Word(word)>>,
         ret  |-> "Continue",
         path |-> "known"]

\* mutant: the "So far" line is printed after the insertion
KnownCall_so_far_late(set, c2) ==
    LET avail == available_animals(set)
        word  == avail[random_usize(Len(avail), c2) + 1]
    IN  [done |-> insert(set, word),
         out  |-> Header(insert(set, word)) \o <<Word(word)>>,
         ret  |-> "Continue",
         path |-> "known"]

\* mutant: the selection counts from the end of the list
KnownCall_from_end(set, c2) ==
    LET avail == available_animals(set)
        word  == avail[Len(avail) - random_usize(Len(avail), c2)]
    IN  [done |-> insert(set, word),
         out  |-> Header(set) \o <<Word(word)>>,
         ret  |-> "Continue",
         path |-> "known"]

\* the branch of a real animal name, c2 the clock reading of the selection
KnownCall(set, c2) ==
    LET avail == available_animals(set)
        word  == avail[random_usize(Len(avail), c2) + 1]
    IN  [done |-> insert(set, word),
         out  |-> Header(set) \o <<Word(word)>>,
         ret  |-> "Continue",
         path |-> "known"]

\* the word made of the letters the three clock readings select
synthesize(v1, v2, v3, c3, c4, c5) ==
    format(v1[random_usize(Len(v1), c3) + 1],
           v2[random_usize(Len(v2), c4) + 1],
           v3[random_usize(Len(v3), c5) + 1])

\* mutant: the word is inserted without the test for a real animal name
after_synthesis_unchecked(set, word) == insert(set, word)

\* mutant: the test for a real animal name is inverted
after_synthesis_inverted(set, word) ==
    IF ~is_animal_name(word) THEN insert(set, word) ELSE set

\* the set after a synthesized word
after_synthesis(set, word) ==
    IF is_animal_name(word) THEN insert(set, word) ELSE set

\* the synthesis path
SynthCall(set, word) ==
    [done |-> after_synthesis(set, word),
     out  |-> Header(set) \o <<Word(word)>>,
     ret  |-> "Continue",
     path |-> "synth"]

(* ---------------------------- main ------------------------------------- *)

\* no call of random_usize observed
NoRnd == [max |-> 0, clock |-> ClockErr, value |-> 0, called |-> FALSE]

Init ==
    /\ done_set = {}
    /\ pc = "call"
    /\ ret = "NotCalled"
    /\ path = "none"
    /\ out = <<>>
    /\ input = <<>>
    /\ io = "ok"
    /\ calls = 0
    /\ known_calls = 0
    /\ rnd = NoRnd

\* mutant: the arms of the match are exchanged, the loop breaks on None
Match_arms_exchanged(r) ==
    /\ done_set' = r.done
    /\ out' = r.out
    /\ ret' = r.ret
    /\ path' = r.path
    /\ pc' = IF r.ret = "AllDone" THEN "prompt" ELSE "Done"
    /\ UNCHANGED <<input, io>>

\* match animal_or_not(&mut done_set)? : what main does with the call's result
Match(r) ==
    /\ done_set' = r.done
    /\ out' = r.out
    /\ ret' = r.ret
    /\ path' = r.path
    /\ pc' = IF r.ret = "AllDone" THEN "Done" ELSE "prompt"
    /\ UNCHANGED <<input, io>>

\* a call with the set equal to the catalog
AllDoneStep ==
    /\ pc = "call"
    /\ all_found(done_set)
    /\ Match(AllDoneCall(done_set))

\* a call that takes the branch of a real animal name, its clock read in Clocks
KnownStep(Clocks) ==
    /\ pc = "call"
    /\ ~all_found(done_set)
    /\ \E c1, c2 \in Clocks :
          /\ takes_known_branch(done_set, c1)
          /\ Match(KnownCall(done_set, c2))

\* the path of a call that synthesizes: straight to the synthesis, or through
\* the branch of a real animal name with no name available
synth_path(c1) == IF random_usize(4, c1) = 0 THEN "fall_through" ELSE "synth"

\* a call that synthesizes a word, its clock read in Clocks
SynthStep(Clocks) ==
    /\ pc = "call"
    /\ ~all_found(done_set)
    /\ \E c1 \in Clocks :
          /\ ~takes_known_branch(done_set, c1)
          /\ \E v1 \in IntoVec(first_letters),
                v2 \in IntoVec(second_letters),
                v3 \in IntoVec(third_letters),
                c3, c4, c5 \in Clocks :
                Match([SynthCall(done_set, synthesize(v1, v2, v3, c3, c4, c5))
                          EXCEPT !.path = synth_path(c1)])

CallAllDone == AllDoneStep /\ UNCHANGED aux

CallKnown == KnownStep(ClockReadings) /\ UNCHANGED aux

CallSynth == SynthStep(ClockReadings) /\ UNCHANGED aux

\* mutant: the flush is missing, the read follows the prompt at once
PrintPrompt_no_flush ==
    /\ pc = "prompt"
    /\ out' = Append(out, Prompt)
    /\ pc' = "read"
    /\ UNCHANGED <<done_set, ret, path, input, io, aux>>

PrintPrompt ==
    /\ pc = "prompt"
    /\ out' = Append(out, Prompt)
    /\ pc' = "flush"
    /\ UNCHANGED <<done_set, ret, path, input, io, aux>>

\* mutant: the result of flush is dropped, the loop goes on to read
Flush_result_dropped ==
    /\ pc = "flush"
    /\ \E ok \in BOOLEAN :
          /\ pc' = "read"
          /\ io' = IF ok THEN io ELSE "flush_failed"
    /\ UNCHANGED <<done_set, ret, path, out, input, aux>>

\* io::stdout().flush()? : a failure leaves main with the error
Flush ==
    /\ pc = "flush"
    /\ \E ok \in BOOLEAN :
          /\ pc' = IF ok THEN "read" ELSE "Error"
          /\ io' = IF ok THEN io ELSE "flush_failed"
    /\ UNCHANGED <<done_set, ret, path, out, input, aux>>

\* let mut input = String::new(); io::stdin().read_line(&mut input)?
ReadLine ==
    /\ pc = "read"
    /\ \/ /\ pc' = "Error"
          /\ io' = "read_failed"
          /\ UNCHANGED input
       \/ \E line \in Lines :
             /\ input' = line
             /\ pc' = "check"
             /\ UNCHANGED io
    /\ UNCHANGED <<done_set, ret, path, out, aux>>

\* if input.trim() == "exit" { println!("OK!"); break; } and the end of the
\* iteration, where its locals go out of scope
CheckExit ==
    /\ pc = "check"
    /\ IF is_exit(input)
       THEN /\ out' = Append(out, OkMsg)
            /\ pc' = "Done"
            /\ UNCHANGED <<ret, path, input>>
       ELSE /\ out' = <<>>
            /\ pc' = "call"
            /\ ret' = "NotCalled"
            /\ path' = "none"
            /\ input' = <<>>
    /\ UNCHANGED <<done_set, io, aux>>

Next ==
    \/ CallAllDone
    \/ CallKnown
    \/ CallSynth
    \/ PrintPrompt
    \/ Flush
    \/ ReadLine
    \/ CheckExit

Spec == Init /\ [][Next]_vars

(* ------------------- a single call of animal_or_not -------------------- *)

owl == <<"o", "w", "l">>

bee == <<"b", "e", "e">>

cat == <<"c", "a", "t">>

\* the discovered sets a single call is given
InputSets ==
    { {}, {bee, cat}, animals_set \ {owl}, animals_set }

InitGen ==
    /\ done_set \in InputSets
    /\ pc = "call"
    /\ ret = "NotCalled"
    /\ path = "none"
    /\ out = <<>>
    /\ input = <<>>
    /\ io = "ok"
    /\ calls = 0
    /\ known_calls = 0
    /\ rnd = NoRnd

GenAllDone == AllDoneStep /\ UNCHANGED aux

GenKnown == KnownStep(WideClockReadings) /\ UNCHANGED aux

GenSynth == SynthStep(WideClockReadings) /\ UNCHANGED aux

NextGen ==
    \/ GenAllDone
    \/ GenKnown
    \/ GenSynth

SpecGen == InitGen /\ [][NextGen]_vars

(* ------------------- the results of a call, as a set ------------------- *)

\* the words a call can synthesize with its clock read in Clocks
SynthWords(Clocks) ==
    {synthesize(v1, v2, v3, c3, c4, c5) :
        v1 \in IntoVec(first_letters),
        v2 \in IntoVec(second_letters),
        v3 \in IntoVec(third_letters),
        c3 \in Clocks, c4 \in Clocks, c5 \in Clocks}

\* the results a call on `set` can have with its clock read in Clocks, Words
\* the words it can synthesize
CallResults(set, Clocks, Words) ==
    IF all_found(set)
    THEN {AllDoneCall(set)}
    ELSE {KnownCall(set, c2) :
             c2 \in {c \in Clocks :
                        \E c1 \in Clocks : takes_known_branch(set, c1)}}
         \cup
         {[SynthCall(set, w) EXCEPT !.path = synth_path(c1)] :
             c1 \in {c \in Clocks : ~takes_known_branch(set, c)},
             w \in Words}

\* a call of animal_or_not from main, any of its paths
TakeCall(Clocks, Words) ==
    /\ pc = "call"
    /\ \E r \in CallResults(done_set, Clocks, Words) : Match(r)

(* ------------------- random_usize taken alone -------------------------- *)

RandClockReadings ==
    {ClockErr} \cup {ClockOk(h, l) : h \in 0..MaxRandHi, l \in 0..MaxRandLo}

ClockFailure == {ClockErr}

ClockFailureWords == SynthWords(ClockFailure)

InitRand == InitGen

\* one call of random_usize
RandomCall ==
    /\ ~rnd.called
    /\ \E max \in 0..MaxRandMax, clock \in RandClockReadings :
          rnd' = [max |-> max, clock |-> clock,
                  value |-> random_usize(max, clock), called |-> TRUE]
    /\ UNCHANGED <<done_set, pc, ret, path, out, input, io, calls, known_calls>>

\* one call of animal_or_not with the clock failing at every reading
ClockFailureCall ==
    /\ TakeCall(ClockFailure, ClockFailureWords)
    /\ UNCHANGED aux

NextRand ==
    \/ RandomCall
    \/ ClockFailureCall

SpecRand == InitRand /\ [][NextRand]_vars

(* ------------------- a session that is never cut short ---------------- *)

\* the lines of a user who never enters "exit"
ContinueLines == {line \in Lines : ~is_exit(line)}

\* the flush succeeds
FlushOk ==
    /\ pc = "flush"
    /\ pc' = "read"
    /\ UNCHANGED <<done_set, ret, path, out, input, io, aux>>

\* the read succeeds and the line is not "exit"
ReadContinue ==
    /\ pc = "read"
    /\ \E line \in ContinueLines :
          /\ input' = line
          /\ pc' = "check"
    /\ UNCHANGED <<done_set, ret, path, out, io, aux>>

\* the clock readings of the session that is never cut short: one that takes
\* the branch of a real animal name and one that does not
LiveClockReadings == {ClockErr, ClockOk(0, 1)}

LiveKnown == KnownStep(LiveClockReadings) /\ UNCHANGED aux

LiveSynth == SynthStep(LiveClockReadings) /\ UNCHANGED aux

NextLive ==
    \/ CallAllDone
    \/ LiveKnown
    \/ LiveSynth
    \/ PrintPrompt
    \/ FlushOk
    \/ ReadContinue
    \/ CheckExit

\* the session goes on while it can, and no more is assumed
SpecLiveWeak == Init /\ [][NextLive]_vars /\ WF_vars(NextLive)

\* the session goes on while it can, and the draw of random_usize(4) is fair:
\* calls made again and again take the branch of a real animal name again
\* and again
SpecLive ==
    Init /\ [][NextLive]_vars /\ WF_vars(NextLive) /\ SF_vars(LiveKnown)

(* ------------------- a session on any discovered set ------------------ *)

\* a string that is no catalog name
zzz == <<"z", "z", "z">>

\* the sets main could hand to animal_or_not if it did not start empty: the
\* empty set of the program, a set beyond the catalog, and a set that is
\* neither within the catalog nor beyond it
AnyInputSets ==
    { {}, animals_set \cup {zzz}, (animals_set \ {owl}) \cup {zzz} }

InitAny ==
    /\ done_set \in AnyInputSets
    /\ pc = "call"
    /\ ret = "NotCalled"
    /\ path = "none"
    /\ out = <<>>
    /\ input = <<>>
    /\ io = "ok"
    /\ calls = 0
    /\ known_calls = 0
    /\ rnd = NoRnd

SpecAny == InitAny /\ [][Next]_vars

(* ------------------- the end of a session, every word ----------------- *)

ant == <<"a", "n", "t">>

fly == <<"f", "l", "y">>

ape == <<"a", "p", "e">>

\* the catalog names whose second letter is no vowel
ConsonantNames == {ant, fly, ape, owl}

\* the discovered sets of a session in which these four names, or these four
\* and "bee", are still to be discovered
LateSets ==
    { animals_set \ ConsonantNames, animals_set \ (ConsonantNames \cup {bee}) }

InitLate ==
    /\ done_set \in LateSets
    /\ pc = "call"
    /\ ret = "NotCalled"
    /\ path = "none"
    /\ out = <<>>
    /\ input = <<>>
    /\ io = "ok"
    /\ calls = 0
    /\ known_calls = 0
    /\ rnd = NoRnd

\* every word a call can synthesize with the readings of a call taken alone
WideWords == SynthWords(WideClockReadings)

\* a call of animal_or_not, counted when it takes the branch of a real name
LateCall ==
    /\ TakeCall(WideClockReadings, WideWords)
    /\ known_calls' = IF path' = "known" THEN known_calls + 1 ELSE known_calls
    /\ UNCHANGED <<calls, rnd>>

NextLate ==
    \/ LateCall
    \/ PrintPrompt
    \/ FlushOk
    \/ ReadContinue
    \/ CheckExit

SpecLate == InitLate /\ [][NextLate]_vars

(* ------------------- sessions with their calls counted ----------------- *)

\* a call of animal_or_not, counted
CountedCall(Clocks, Words) ==
    /\ calls < MaxCalls
    /\ TakeCall(Clocks, Words)
    /\ calls' = calls + 1
    /\ known_calls' = IF path' = "known" THEN known_calls + 1 ELSE known_calls
    /\ UNCHANGED rnd

\* the lines of the counted session: the empty line and "exit"
ShortLines == { <<"\n">>, <<"e","x","i","t","\n">> }

\* the read succeeds with one of the two lines
ReadShort ==
    /\ pc = "read"
    /\ \E line \in ShortLines :
          /\ input' = line
          /\ pc' = "check"
    /\ UNCHANGED <<done_set, ret, path, out, io, aux>>

\* a call whose draws are those of LiveClockReadings and whose synthesized
\* words are those of index 0
SessionCall == CountedCall(LiveClockReadings, ClockFailureWords)

NextCount ==
    \/ SessionCall
    \/ PrintPrompt
    \/ FlushOk
    \/ ReadShort
    \/ CheckExit

SpecCount == Init /\ [][NextCount]_vars

\* a call with the clock failing at every reading
FallbackCall == CountedCall(ClockFailure, ClockFailureWords)

NextFallback ==
    \/ FallbackCall
    \/ PrintPrompt
    \/ Flush
    \/ ReadLine
    \/ CheckExit

SpecFallback == Init /\ [][NextFallback]_vars

(* ---------------------------- claims ----------------------------------- *)

\* the words printed in an output
WordsOf(o) == {o[i].word : i \in {j \in 1..Len(o) : o[j].kind = "word"}}

\* the number of words printed in an output
WordCount(o) == Cardinality({j \in 1..Len(o) : o[j].kind = "word"})

\* a step that is a call of animal_or_not
IsCall == pc = "call" /\ pc' # "call"

\* the word a call printed, when it printed one
PrintedWord(o) == o[3].word

\* the lines of the model that are "exit" between whitespace
ExitLines ==
    { <<"e","x","i","t","\n">>, <<" "," ","e","x","i","t","\n">> }

\* C1: in every reachable state of a session the discovered set is a subset
\* of the 16-entry catalog.
C1_DiscoveredSubsetOfCatalog ==
    /\ done_set \subseteq animals_set
    /\ Cardinality(animals_set) = 16

\* C1 witness: a word that is no catalog name was synthesized with names
\* already discovered.
C1_Witness ==
    /\ path = "synth"
    /\ done_set # {}
    /\ WordsOf(out) \cap animals_set = {}

\* C2: a call returns AllDone if and only if the set passed to it equals the
\* catalog as a set; in every other case it returns Continue.
C2_AllDoneIffCatalog ==
    [][IsCall =>
        /\ ret' \in {"AllDone", "Continue"}
        /\ ret' = "AllDone" <=>
              (\A n \in animals_set : n \in done_set) /\
              (\A n \in done_set : n \in animals_set)]_vars

\* C2 witness: a call returned Continue and left the set equal to the
\* catalog: the set passed to it was one name short.
C2_Witness ==
    /\ ret = "Continue"
    /\ pc = "prompt"
    /\ done_set = animals_set

\* C3: a call with the set equal to the full catalog returns AllDone, leaves
\* the set unchanged and prints the completion message and no word.
C3_AllDoneFrame ==
    [][(IsCall /\ done_set = animals_set) =>
        /\ ret' = "AllDone"
        /\ done_set' = done_set
        /\ WordCount(out') = 0
        /\ Kinds(out') = <<"clear", "sofar", "alldone">>]_vars

\* C3 witness: the call with the full catalog has returned.
C3_Witness ==
    /\ path = "all_done"
    /\ ret = "AllDone"
    /\ done_set = animals_set
    /\ out[3] = AllDoneMsg

\* C4 as stated: the loop is in its terminal state exactly when the
\* discovered set equals the catalog.
C4_Original == (pc = "Done") <=> (done_set = animals_set)

\* C4 amended: the loop reaches Done exactly by a call made with the set
\* equal to the catalog or by a line that trims to "exit".
C4_TerminatesByAllDoneOrExit ==
    [][(pc # "Done" /\ pc' = "Done") <=>
        \/ pc = "call" /\ done_set = animals_set
        \/ pc = "check" /\ input \in ExitLines]_vars

\* C4 witness: the loop ended on "exit" with names still undiscovered.
C4_Witness ==
    /\ pc = "Done"
    /\ ret = "Continue"
    /\ done_set # animals_set
    /\ done_set # {}

\* C5: after a Continue outcome the session ends and prints "OK!" exactly
\* when the line read is "exit" between leading and trailing whitespace; any
\* other line ("Exit", "exit now", "ex it", the empty line, end of input)
\* prints nothing more and leads to another call of the generator.
C5_ExitOnlyOnTrimmedExit ==
    [][pc = "check" =>
        /\ ret = "Continue"
        /\ input \in ExitLines =>
              pc' = "Done" /\ out' = Append(out, OkMsg) /\ done_set' = done_set
        /\ input \notin ExitLines =>
              pc' = "call" /\ done_set' = done_set /\ OkMsg \notin Range(out')]_vars

\* C5 witness: the session ended with "OK!" on the line "  exit\n".
C5_Witness ==
    /\ pc = "Done"
    /\ input = <<" "," ","e","x","i","t","\n">>
    /\ out[Len(out)] = OkMsg

\* C6: the discovered set is empty at the start of the session, and every
\* step leaves it a superset of its previous value with at most one element
\* more.
C6_MonotoneByAtMostOne ==
    /\ done_set = {}
    /\ [][/\ done_set \subseteq done_set'
          /\ Cardinality(done_set' \ done_set) <= 1]_vars

\* C6 witness: a call has added a name to a set that already held names.
C6_Witness ==
    /\ pc = "prompt"
    /\ Cardinality(done_set) >= 3
    /\ out[2].set # done_set
    /\ out[2].set \subseteq done_set

\* C7 as stated: the set grows by one element on every call that produces a
\* real animal name, selected or synthesized.
C7_Original ==
    [][(IsCall /\ ret' = "Continue" /\ PrintedWord(out') \in animals_set) =>
        Cardinality(done_set') = Cardinality(done_set) + 1]_vars

\* C7 amended: the set grows by exactly the produced name on every call that
\* produces a real animal name not yet discovered, selected or synthesized;
\* a call that produces a name already discovered leaves the set unchanged.
C7_GrowsOnNewName ==
    [][(IsCall /\ ret' = "Continue" /\ PrintedWord(out') \in animals_set) =>
        IF PrintedWord(out') \in done_set
        THEN done_set' = done_set
        ELSE /\ done_set' = done_set \cup {PrintedWord(out')}
             /\ Cardinality(done_set') = Cardinality(done_set) + 1]_vars

\* C7 witness: a synthesized word was a catalog name not yet discovered and
\* the set grew by it.
C7_Witness ==
    /\ path = "synth"
    /\ PrintedWord(out) \in animals_set
    /\ PrintedWord(out) \notin out[2].set
    /\ done_set = out[2].set \cup {PrintedWord(out)}

\* the letters allowed at the three places of a synthesized word
C8_First ==
    {"p", "d", "c", "r", "f", "h", "b", "a", "o"} \cup {"t", "l", "b", "p", "s"}

C8_Second == {"u", "o", "a", "e", "i"}

C8_Third == {"p", "g", "t", "x", "n", "y", "w", "e", "l"}

\* C8: every synthesized word has exactly 3 characters, the first among the
\* first letters of the catalog names and t, l, b, p, s, the second among the
\* second letters of the catalog names that are vowels, the third among the
\* third letters of the catalog names.
C8_SynthesizedWordShape ==
    path = "synth" =>
        /\ WordCount(out) = 1
        /\ Len(PrintedWord(out)) = 3
        /\ PrintedWord(out)[1] \in C8_First
        /\ PrintedWord(out)[2] \in C8_Second
        /\ PrintedWord(out)[3] \in C8_Third

\* C8 witness: the word "sil" was synthesized: a first letter that only the
\* extra letters give, a vowel, and a third letter of the catalog.
C8_Witness ==
    /\ path = "synth"
    /\ PrintedWord(out) = <<"s", "i", "l">>

\* C9: a synthesized word that is a catalog name is in the set after the
\* step, synthesizing a name already in the set leaves the set unchanged, and
\* a synthesized word that is no catalog name leaves the set unchanged.
C9_SynthesisInsertsOnce ==
    [][(IsCall /\ path' = "synth") =>
        /\ PrintedWord(out') \in animals_set =>
              PrintedWord(out') \in done_set'
        /\ PrintedWord(out') \in done_set => done_set' = done_set
        /\ PrintedWord(out') \notin animals_set => done_set' = done_set]_vars

\* C9 witness: a name already discovered was synthesized again.
C9_Witness ==
    /\ path = "synth"
    /\ PrintedWord(out) \in out[2].set
    /\ done_set = out[2].set

\* C10: a call that takes the branch of a real animal name prints a catalog
\* name that was not in the set, the set after the call is the set before
\* with exactly that name added, one word is printed and the call returns
\* Continue.
C10_KnownBranch ==
    [][(IsCall /\ path' = "known") =>
        /\ PrintedWord(out') \in animals_set
        /\ PrintedWord(out') \notin done_set
        /\ done_set' = done_set \cup {PrintedWord(out')}
        /\ Cardinality(done_set') = Cardinality(done_set) + 1
        /\ WordCount(out') = 1
        /\ ret' = "Continue"]_vars

\* C10 witness: the branch of a real animal name selected a name that is not
\* the first undiscovered one in catalog order.
C10_Witness ==
    /\ path = "known"
    /\ ret = "Continue"
    /\ PrintedWord(out) = <<"d", "o", "g">>
    /\ out[2].set = {}

\* C11: given the catalog without "owl", a call that takes the branch of a
\* real animal name selects "owl" whatever the clock reads, and the set is
\* the full catalog afterwards.
C11_OwlIsSelected ==
    (path = "known" /\ out[2].set = animals_set \ {owl}) =>
        /\ PrintedWord(out) = owl
        /\ WordCount(out) = 1
        /\ done_set = animals_set

\* C11 witness: the branch was taken with only "owl" undiscovered.
C11_Witness ==
    /\ path = "known"
    /\ out[2].set = animals_set \ {owl}
    /\ owl \in done_set

\* C12: random_usize(max) is in [0, max) for every max > 0 and every clock
\* reading, it is the low word of the count modulo max whatever the high
\* word, it is 0 when max is 0 and 0 when the clock cannot be read; a call of
\* animal_or_not under clock failure returns an outcome.
C12_RandomInRange ==
    /\ rnd.called =>
          /\ rnd.max > 0 => rnd.value >= 0 /\ rnd.value < rnd.max
          /\ rnd.max = 0 => rnd.value = 0
          /\ ~rnd.clock.ok => rnd.value = 0
          /\ (rnd.clock.ok /\ rnd.max > 0) =>
                \E q \in 0..MaxRandLo + 1 :
                    rnd.clock.lo = q * rnd.max + rnd.value
    /\ pc # "call" =>
          /\ ret \in {"AllDone", "Continue"}
          /\ pc = IF ret = "AllDone" THEN "Done" ELSE "prompt"
          /\ Len(out) = 3

\* C12 witness: a count with high bits set and a low word above max was
\* reduced, and a call under clock failure has returned.
C12_Witness ==
    /\ rnd.called
    /\ rnd.clock.hi > 0
    /\ rnd.max > 1
    /\ rnd.clock.lo > rnd.max
    /\ rnd.value > 0
    /\ pc = "prompt"

\* C13: a failure of the flush or of the read is not recovered: the step on
\* which it occurs ends the session in the error outcome, with neither "OK!"
\* nor "All Done!" printed and the discovered set as it was, and no step
\* follows it, so no further call of the generator is made.
C13_IoFailureEndsSession ==
    [][/\ pc # "Error"
       /\ io = "ok"
       /\ (pc' = "Error") <=> (io' # "ok")
       /\ io' # "ok" =>
             /\ pc \in {"flush", "read"}
             /\ io' = IF pc = "flush" THEN "flush_failed" ELSE "read_failed"
             /\ OkMsg \notin Range(out')
             /\ AllDoneMsg \notin Range(out')
             /\ done_set' = done_set
             /\ calls' = calls]_vars

\* C13 witness: the read failed after names had been discovered.
C13_Witness ==
    /\ pc = "Error"
    /\ io = "read_failed"
    /\ done_set # {}
    /\ out[Len(out)] = Prompt

\* the number of prompts in an output
PromptCount(o) == Cardinality({j \in 1..Len(o) : o[j] = Prompt})

\* C14: a call that returns Continue is followed by one prompt, then the
\* flush, then one read of a line, before any next call; a call that returns
\* AllDone is followed by no prompt and no read and ends the session, and
\* nothing follows the end of the session.
C14_ProtocolOrder ==
    [][/\ IsCall =>
             /\ PromptCount(out') = 0
             /\ pc' = IF ret' = "AllDone" THEN "Done" ELSE "prompt"
             /\ ret' \in {"AllDone", "Continue"}
       /\ pc = "prompt" =>
             /\ ret = "Continue"
             /\ out' = Append(out, Prompt)
             /\ pc' = "flush"
       /\ pc = "flush" =>
             /\ PromptCount(out) = 1
             /\ out' = out /\ input' = input
             /\ pc' \in {"read", "Error"}
       /\ pc = "read" =>
             /\ PromptCount(out) = 1
             /\ out' = out
             /\ pc' \in {"check", "Error"}
       /\ pc = "check" =>
             /\ input' \in {input, <<>>}
             /\ PromptCount(out') <= 1
             /\ pc' \in {"call", "Done"}
       /\ pc' = "read" => pc = "flush"
       /\ pc' = "call" => pc = "check"
       /\ pc # "Done"]_vars

\* C14 witness: a line was read after one prompt and the flush.
C14_Witness ==
    /\ pc = "check"
    /\ ret = "Continue"
    /\ Kinds(out) = <<"clear", "sofar", "word", "prompt">>
    /\ input # <<>>
    /\ done_set # {}

\* C15: if the user never enters "exit", no input or output fails and the
\* branch of a real animal name is taken again and again, the session ends
\* in Done with "All Done!" printed and the discovered set equal to the
\* catalog.
C15_EventuallyAllDone ==
    <>(/\ pc = "Done"
       /\ ret = "AllDone"
       /\ AllDoneMsg \in Range(out)
       /\ done_set = animals_set)

\* C15 witness: the session has ended with "All Done!" without an "exit".
C15_Witness ==
    /\ pc = "Done"
    /\ Kinds(out) = <<"clear", "sofar", "alldone">>
    /\ done_set = animals_set
    /\ input = <<>>

\* C16: every call prints the screen clear, then the "So far" line, then the
\* word or "All Done!"; the "So far" line shows the set as it was when the
\* call began, so a name discovered by the call is the word it prints and is
\* not in its "So far" line.
C16_OutputOrder ==
    [][IsCall =>
        /\ Kinds(out') \in { <<"clear", "sofar", "word">>,
                             <<"clear", "sofar", "alldone">> }
        /\ out'[1] = Clear
        /\ out'[2].set = done_set
        /\ \A n \in done_set' \ done_set :
              /\ n \notin out'[2].set
              /\ out'[3] = Word(n)]_vars

\* C16 witness: a call showed the names discovered before it and printed a
\* name that its "So far" line does not show.
C16_Witness ==
    /\ pc = "prompt"
    /\ Cardinality(out[2].set) = 2
    /\ Cardinality(done_set) = 3
    /\ PrintedWord(out) \in done_set \ out[2].set

\* C17: a call that takes the branch of a real animal name on a set within
\* the catalog finds an undiscovered name, so a session, whose set stays
\* within the catalog, never falls through from the branch into the
\* synthesis; the fall-through is taken only on a set that is not within the
\* catalog.
C17_NoFallThroughInSession ==
    /\ path = "fall_through" =>
          /\ ~(out[2].set \subseteq animals_set)
          /\ zzz \in done_set
    /\ (done_set \subseteq animals_set /\ done_set # animals_set) =>
          /\ available_animals(done_set) # <<>>
          /\ Range(available_animals(done_set)) = animals_set \ done_set

\* C17 witness: a call on a set beyond the catalog fell through.
C17_Witness ==
    /\ path = "fall_through"
    /\ pc = "prompt"
    /\ out[2].set = animals_set \cup {zzz}

\* C18: no synthesized word is "ant", "fly", "ape" or "owl", so each of the
\* four enters the discovered set by a call that takes the branch of a real
\* animal name, and the session does not reach AllDone before four such calls.
C18_ConsonantNamesOnlyKnown ==
    /\ path \in {"synth", "fall_through"} =>
          /\ PrintedWord(out) \notin ConsonantNames
          /\ done_set \cap ConsonantNames = out[2].set \cap ConsonantNames
    /\ Cardinality(done_set \cap ConsonantNames) <= known_calls
    /\ ret = "AllDone" => known_calls >= 4

\* C18 witness: the session reached AllDone after exactly four calls took
\* the branch.
C18_Witness ==
    /\ ret = "AllDone"
    /\ pc = "Done"
    /\ known_calls = 4

\* C19: the call that discovers the 16th name returns Continue and the
\* session prompts with the set equal to the catalog; "All Done!" is printed
\* only by a later call, made with the set equal to the catalog and never
\* before the 17th call; "exit" at that prompt ends the session with "OK!"
\* and without "All Done!", and nothing follows the end of the session.
C19_AllDoneOneCallLater ==
    /\ [](/\ Cardinality(done_set) <= calls
          /\ AllDoneMsg \in Range(out) =>
                /\ calls >= 17
                /\ ret = "AllDone"
                /\ out[2].set = animals_set
          /\ (pc # "call" /\ done_set = animals_set /\ out[2].set # animals_set) =>
                /\ ret = "Continue"
                /\ pc # "Done" \/ OkMsg \in Range(out)
                /\ AllDoneMsg \notin Range(out)
          /\ OkMsg \in Range(out) => AllDoneMsg \notin Range(out))
    /\ [][pc # "Done"]_vars

\* C19 witness: "exit" was entered at the prompt of the call that discovered
\* the 16th name.
C19_Witness ==
    /\ pc = "Done"
    /\ done_set = animals_set
    /\ out[Len(out)] = OkMsg
    /\ calls = 16

\* the first k names of the catalog
FirstNames(k) == {THREE_LETTER_ANIMAL_NAMES[i] : i \in 1..k}

\* C20: with the clock failing at every reading, every call made on a set
\* short of the catalog takes the branch of a real animal name and selects
\* the first undiscovered name in catalog order: the k-th call prints the
\* k-th catalog name and leaves the first k names discovered, for k up to
\* 16, no word is synthesized, and the 17th call returns AllDone.
C20_CatalogOrderUnderFallback ==
    /\ calls <= 17
    /\ known_calls = IF calls <= 16 THEN calls ELSE 16
    /\ done_set = FirstNames(known_calls)
    /\ path \notin {"synth", "fall_through"}
    /\ (pc # "call" /\ calls <= 16) =>
          /\ path = "known"
          /\ ret = "Continue"
          /\ Kinds(out)[3] = "word"
          /\ PrintedWord(out) = THREE_LETTER_ANIMAL_NAMES[calls]
          /\ out[2].set = FirstNames(calls - 1)
    /\ calls = 17 =>
          /\ ret = "AllDone"
          /\ pc = "Done"
          /\ WordCount(out) = 0

\* C20 witness: the 17th call has returned AllDone, "bee" being the last
\* name discovered.
C20_Witness ==
    /\ calls = 17
    /\ ret = "AllDone"
    /\ known_calls = 16
    /\ done_set = animals_set

====
